---- MODULE Spec2Model ----
(* Model of inject-text.py: embed searchable word positions into an SVG.   *)
(* Text is a sequence of characters (one-character strings); a number is   *)
(* an IEEE-754 double, kept exactly as an odd binary mantissa (a sequence  *)
(* of bits, least significant first) and an exponent.                      *)
EXTENDS Integers, Sequences, FiniteSets, TLC

----------------------------------------------------------------------------
(* Arbitrary-precision naturals.  A number is a sequence of bits, least    *)
(* significant first, no leading zero; zero is the empty sequence.  The    *)
(* arithmetic runs on limbs of LimbBits bits, least significant first.     *)

LimbBits == 12
Base == 2 ^ LimbBits

RECURSIVE NatToBits(_)
NatToBits(n) == IF n = 0 THEN << >> ELSE << n % 2 >> \o NatToBits(n \div 2)

RECURSIVE BitsToNat(_)
BitsToNat(b) == IF b = << >> THEN 0 ELSE b[1] + 2 * BitsToNat(Tail(b))

Trim(b) ==
    IF \A i \in 1..Len(b) : b[i] = 0 THEN << >>
    ELSE SubSeq(b, 1, CHOOSE i \in 1..Len(b) :
                         b[i] = 1 /\ \A j \in (i + 1)..Len(b) : b[j] = 0)

Zeros(n) == [i \in 1..n |-> 0]

ShiftLeft(b, n) == IF b = << >> THEN b ELSE Zeros(n) \o b

BitAt(b, i) == IF i >= 1 /\ i <= Len(b) THEN b[i] ELSE 0

RECURSIVE LimbOf(_, _, _)
LimbOf(b, from, t) ==
    IF t = LimbBits THEN 0 ELSE BitAt(b, from + t) * 2 ^ t + LimbOf(b, from, t + 1)

ToLimbs(b) ==
    [j \in 1..((Len(b) + LimbBits - 1) \div LimbBits) |->
        LimbOf(b, (j - 1) * LimbBits + 1, 0)]

(* number of bits of a limb *)
BitLen(c) == IF c = 0 THEN 0 ELSE CHOOSE k \in 1..LimbBits : 2 ^ (k - 1) <= c /\ c < 2 ^ k

(* number of limbs up to the last non-zero one *)
LimbLen(l) ==
    IF \A i \in 1..Len(l) : l[i] = 0 THEN 0
    ELSE CHOOSE i \in 1..Len(l) : l[i] # 0 /\ \A j \in (i + 1)..Len(l) : l[j] = 0

ToBits(l) ==
    LET n == LimbLen(l)
    IN IF n = 0 THEN << >>
       ELSE [i \in 1..((n - 1) * LimbBits + BitLen(l[n])) |->
               (l[((i - 1) \div LimbBits) + 1] \div 2 ^ ((i - 1) % LimbBits)) % 2]

LimbAt(l, i) == IF i >= 1 /\ i <= Len(l) THEN l[i] ELSE 0

RECURSIVE LAddFrom(_, _, _, _)
LAddFrom(a, b, i, carry) ==
    IF i > Len(a) /\ i > Len(b)
    THEN IF carry = 0 THEN << >> ELSE << carry >>
    ELSE LET s == LimbAt(a, i) + LimbAt(b, i) + carry
         IN << s % Base >> \o LAddFrom(a, b, i + 1, s \div Base)

LAdd(a, b) == LAddFrom(a, b, 1, 0)

(* a - b for a >= b *)
RECURSIVE LSubFrom(_, _, _, _)
LSubFrom(a, b, i, borrow) ==
    IF i > Len(a) THEN << >>
    ELSE LET d == LimbAt(a, i) - LimbAt(b, i) - borrow
         IN << d % Base >> \o LSubFrom(a, b, i + 1, IF d < 0 THEN 1 ELSE 0)

LSub(a, b) == LSubFrom(a, b, 1, 0)

RECURSIVE LGeqFrom(_, _, _)
LGeqFrom(a, b, i) ==
    IF i = 0 THEN TRUE
    ELSE IF LimbAt(a, i) # LimbAt(b, i) THEN LimbAt(a, i) > LimbAt(b, i)
    ELSE LGeqFrom(a, b, i - 1)

LGeq(a, b) == LGeqFrom(a, b, IF Len(a) > Len(b) THEN Len(a) ELSE Len(b))

RECURSIVE LMulSmallFrom(_, _, _, _)
LMulSmallFrom(a, c, i, carry) ==
    IF i > Len(a)
    THEN IF carry = 0 THEN << >> ELSE << carry >>
    ELSE LET p == a[i] * c + carry
         IN << p % Base >> \o LMulSmallFrom(a, c, i + 1, p \div Base)

LMulSmall(a, c) == LMulSmallFrom(a, c, 1, 0)

RECURSIVE LMulFrom(_, _, _)
LMulFrom(a, b, i) ==
    IF i > Len(a) THEN << >>
    ELSE LAdd(Zeros(i - 1) \o LMulSmall(b, a[i]), LMulFrom(a, b, i + 1))

(* the largest c < Base with c * d <= r, found bit by bit from the top *)
RECURSIVE QuotDigit(_, _, _, _)
QuotDigit(r, d, c, t) ==
    IF t < 0 THEN c
    ELSE IF LGeq(r, LMulSmall(d, c + 2 ^ t))
         THEN QuotDigit(r, d, c + 2 ^ t, t - 1)
         ELSE QuotDigit(r, d, c, t - 1)

(* Long division, most significant limb first *)
RECURSIVE LDivFrom(_, _, _, _, _)
LDivFrom(n, d, i, q, r) ==
    IF i = 0 THEN [q |-> q, r |-> r]
    ELSE LET r2 == << n[i] >> \o r
             c  == QuotDigit(r2, d, 0, LimbBits - 1)
         IN LDivFrom(n, d, i - 1, << c >> \o q, LSub(r2, LMulSmall(d, c)))

BAdd(a, b) == ToBits(LAdd(ToLimbs(a), ToLimbs(b)))

BSub(a, b) == ToBits(LSub(ToLimbs(a), ToLimbs(b)))

BGeq(a, b) == LGeq(ToLimbs(a), ToLimbs(b))

BMul(a, b) == ToBits(LMulFrom(ToLimbs(a), ToLimbs(b), 1))

(* [q |-> n div d, r |-> n mod d] for d > 0 *)
BDivMod(n, d) ==
    LET l  == ToLimbs(n)
        qr == LDivFrom(l, ToLimbs(d), Len(l), << >>, << >>)
    IN [q |-> ToBits(qr.q), r |-> ToBits(qr.r)]

----------------------------------------------------------------------------
(* IEEE-754 binary64, non-negative finite values: value = m * 2^e with m   *)
(* odd (or zero), at most Precision bits.                                  *)

Precision == 53

FZero == [m |-> << >>, e |-> 0]

LowZeros(b) == (CHOOSE i \in 1..Len(b) : b[i] = 1 /\ \A j \in 1..(i - 1) : b[j] = 0) - 1

Canon(m, e) ==
    IF m = << >> THEN FZero
    ELSE LET z == LowZeros(m) IN [m |-> SubSeq(m, z + 1, Len(m)), e |-> e + z]

(* Round the exact value (m + sticky fraction) * 2^e to the nearest double, *)
(* ties to even.  sticky says a non-zero amount below m's last bit exists.  *)
RoundNearestEven(m, e, sticky) ==
    IF Len(m) <= Precision
    THEN Canon(m, e)   \* callers pass sticky only with more than Precision bits
    ELSE LET s    == Len(m) - Precision
             q    == SubSeq(m, s + 1, Len(m))
             half == m[s]
             low  == sticky \/ (\E i \in 1..(s - 1) : m[i] = 1)
             up   == half = 1 /\ (low \/ q[1] = 1)
         IN Canon(IF up THEN BAdd(q, << 1 >>) ELSE q, e + s)

FMul(x, y) == RoundNearestEven(BMul(x.m, y.m), x.e + y.e, FALSE)

FDiv(x, y) ==
    IF x.m = << >> THEN FZero
    ELSE LET k  == Precision + 3 + Len(y.m)
             qr == BDivMod(ShiftLeft(x.m, k), y.m)
         IN RoundNearestEven(qr.q, x.e - y.e - k, qr.r # << >>)

FGeq(x, y) ==
    IF y.m = << >> THEN TRUE
    ELSE IF x.m = << >> THEN FALSE
    ELSE LET e == IF x.e < y.e THEN x.e ELSE y.e
         IN BGeq(ShiftLeft(x.m, x.e - e), ShiftLeft(y.m, y.e - e))

(* x - y for x >= y *)
FSub(x, y) ==
    IF y.m = << >> THEN x
    ELSE LET e == IF x.e < y.e THEN x.e ELSE y.e
         IN RoundNearestEven(BSub(ShiftLeft(x.m, x.e - e), ShiftLeft(y.m, y.e - e)),
                             e, FALSE)

(* round(x, 1): the decimal with one digit nearest the exact value of x,   *)
(* ties to even; returned as the number of tenths.                         *)
round1(x) ==
    LET t == BMul(x.m, NatToBits(10))
    IN IF x.e >= 0 THEN BitsToNat(ShiftLeft(t, x.e))
       ELSE LET s    == 0 - x.e
                q    == BitsToNat(SubSeq(t, s + 1, Len(t)))
                half == BitAt(t, s)
                low  == \E i \in 1..(s - 1) : BitAt(t, i) = 1
            IN IF half = 1 /\ (low \/ q % 2 = 1) THEN q + 1 ELSE q

(* the double nearest n / d *)
FloatOfRatio(n, d) ==
    IF d = 1 THEN Canon(NatToBits(n), 0)
    ELSE FDiv(Canon(NatToBits(n), 0), Canon(NatToBits(d), 0))

----------------------------------------------------------------------------
(* Text: sequences of characters.                                          *)

Whitespace == {" ", "\n", "\t"}
DigitChars == << "0", "1", "2", "3", "4", "5", "6", "7", "8", "9" >>
IsDigit(c) == \E i \in 1..10 : DigitChars[i] = c
DigitVal(c) == (CHOOSE i \in 1..10 : DigitChars[i] = c) - 1

(* Python's None: no character sequence equals it *)
None == << "None" >>

Occurs(s, pat, i) ==
    /\ i + Len(pat) - 1 <= Len(s)
    /\ SubSeq(s, i, i + Len(pat) - 1) = pat

(* str.find: index of the first occurrence of pat, 0 when there is none *)
Find(s, pat) ==
    IF \E i \in 1..Len(s) : Occurs(s, pat, i)
    THEN CHOOSE i \in 1..Len(s) :
            Occurs(s, pat, i) /\ \A j \in 1..(i - 1) : ~Occurs(s, pat, j)
    ELSE 0

(* str.replace(old, new): every non-overlapping occurrence, left to right *)
RECURSIVE Replace(_, _, _)
Replace(s, old, new) ==
    LET i == Find(s, old)
    IN IF i = 0 THEN s
       ELSE SubSeq(s, 1, i - 1) \o new
              \o Replace(SubSeq(s, i + Len(old), Len(s)), old, new)

(* str.split(): the maximal runs of non-whitespace characters *)
RECURSIVE split(_)
split(s) ==
    IF \A i \in 1..Len(s) : s[i] \in Whitespace THEN << >>
    ELSE LET a == CHOOSE i \in 1..Len(s) :
                     s[i] \notin Whitespace /\ \A j \in 1..(i - 1) : s[j] \in Whitespace
             b == IF \E i \in a..Len(s) : s[i] \in Whitespace
                  THEN CHOOSE i \in a..Len(s) :
                          s[i] \in Whitespace /\ \A j \in a..(i - 1) : s[j] \notin Whitespace
                  ELSE Len(s) + 1
         IN << SubSeq(s, a, b - 1) >> \o split(SubSeq(s, b, Len(s)))

(* str.strip() *)
strip(s) ==
    IF \A i \in 1..Len(s) : s[i] \in Whitespace THEN << >>
    ELSE LET a == CHOOSE i \in 1..Len(s) :
                     s[i] \notin Whitespace /\ \A j \in 1..(i - 1) : s[j] \in Whitespace
             b == CHOOSE i \in 1..Len(s) :
                     s[i] \notin Whitespace /\ \A j \in (i + 1)..Len(s) : s[j] \in Whitespace
         IN SubSeq(s, a, b)

RECURSIVE DigitsToNat(_)
DigitsToNat(s) ==
    IF s = << >> THEN 0
    ELSE 10 * DigitsToNat(SubSeq(s, 1, Len(s) - 1)) + DigitVal(s[Len(s)])

(* float(s) for unsigned decimal literals: digits, at most one point.      *)
(* FALSE stands for the ValueError of any other text.                      *)
IsDecimal(s) ==
    /\ \A i \in 1..Len(s) : IsDigit(s[i]) \/ s[i] = "."
    /\ Cardinality({i \in 1..Len(s) : s[i] = "."}) <= 1
    /\ \E i \in 1..Len(s) : IsDigit(s[i])

float(s) ==
    LET digits == SelectSeq(s, IsDigit)
        point  == IF \E i \in 1..Len(s) : s[i] = "."
                  THEN CHOOSE i \in 1..Len(s) : s[i] = "." ELSE Len(s)
    IN FloatOfRatio(DigitsToNat(digits), 10 ^ (Len(s) - point))

(* re.search(r'viewBox="([^"]+)"', svg): the first position where the      *)
(* attribute name and opening quote are followed by one or more characters *)
(* other than a quote and then a quote; 0 when there is no match.          *)
ViewBoxPrefix == << "v", "i", "e", "w", "B", "o", "x", "=", "\"" >>

ViewBoxAt(s, i) ==
    /\ Occurs(s, ViewBoxPrefix, i)
    /\ i + 9 <= Len(s)
    /\ s[i + 9] # "\""
    /\ \E j \in (i + 10)..Len(s) : s[j] = "\""

ViewBoxSearch(s) ==
    IF \E i \in 1..Len(s) : ViewBoxAt(s, i)
    THEN CHOOSE i \in 1..Len(s) :
            ViewBoxAt(s, i) /\ \A j \in 1..(i - 1) : ~ViewBoxAt(s, j)
    ELSE 0

(* m.group(1) *)
ViewBoxGroup(s, i) ==
    LET close == CHOOSE j \in (i + 10)..Len(s) :
                    s[j] = "\"" /\ \A k \in (i + 10)..(j - 1) : s[k] # "\""
    IN SubSeq(s, i + 9, close - 1)

----------------------------------------------------------------------------
(* json.dumps(words, separators=(",", ":")) and html.escape                *)

(* repr of a non-negative integer *)
RECURSIVE NatToDigits(_)
NatToDigits(n) ==
    IF n < 10 THEN << DigitChars[n + 1] >>
    ELSE NatToDigits(n \div 10) \o << DigitChars[(n % 10) + 1] >>

(* repr of the double nearest k / 10 *)
JsonNumber(k) == NatToDigits(k \div 10) \o << "." >> \o << DigitChars[(k % 10) + 1] >>

(* ensure_ascii string escaping: quote, backslash, control, non-ASCII *)
JsonChar(c) ==
    CASE c = "\"" -> << "\\", "\"" >>
      [] c = "\\" -> << "\\", "\\" >>
      [] c = "\n" -> << "\\", "n" >>
      [] c = "\t" -> << "\\", "t" >>
      [] c = "é"  -> << "\\", "u", "0", "0", "e", "9" >>
      [] OTHER    -> << c >>

RECURSIVE JsonChars(_)
JsonChars(t) == IF t = << >> THEN << >> ELSE JsonChar(Head(t)) \o JsonChars(Tail(t))

JsonString(t) == << "\"" >> \o JsonChars(t) \o << "\"" >>

JsonKey(k) == << "\"", k, "\"", ":" >>

JsonWord(w) ==
    << "{" >> \o JsonKey("t") \o JsonString(w.t)
       \o << "," >> \o JsonKey("x") \o JsonNumber(w.x)
       \o << "," >> \o JsonKey("y") \o JsonNumber(w.y)
       \o << "," >> \o JsonKey("w") \o JsonNumber(w.w)
       \o << "," >> \o JsonKey("h") \o JsonNumber(w.h)
       \o << "}" >>

RECURSIVE JsonItems(_)
JsonItems(ws) ==
    IF ws = << >> THEN << >>
    ELSE IF Len(ws) = 1 THEN JsonWord(ws[1])
    ELSE JsonWord(ws[1]) \o << "," >> \o JsonItems(Tail(ws))

json_dumps(ws) == << "[" >> \o JsonItems(ws) \o << "]" >>

(* html.escape(s, quote=False) *)
html_escape_NoQuote(s) ==
    LET s1 == Replace(s,  << "&" >>, << "&", "a", "m", "p", ";" >>)
        s2 == Replace(s1, << "<" >>, << "&", "l", "t", ";" >>)
    IN Replace(s2, << ">" >>, << "&", "g", "t", ";" >>)

(* html.escape(s, quote=True) *)
html_escape(s) ==
    LET s1 == Replace(s,  << "&" >>,  << "&", "a", "m", "p", ";" >>)
        s2 == Replace(s1, << "<" >>,  << "&", "l", "t", ";" >>)
        s3 == Replace(s2, << ">" >>,  << "&", "g", "t", ";" >>)
        s4 == Replace(s3, << "\"" >>, << "&", "q", "u", "o", "t", ";" >>)
    IN Replace(s4, << "'" >>, << "&", "#", "x", "2", "7", ";" >>)

CloseTag == << "<", "/", "s", "v", "g", ">" >>

InjectOpen ==
    << "<", "g", " ", "id=", "\"", "search-data", "\"", " ", "display=", "\"", "none",
       "\"", " ", "data-words=", "'" >>

InjectClose == << "'", ">", "<", "/", "g", ">" >>

(* the hidden group of lines 74-77 *)
InjectElement(ws) == InjectOpen \o html_escape(json_dumps(ws)) \o InjectClose

----------------------------------------------------------------------------
(* The run of main().                                                      *)
(*   argc      len(sys.argv)                                               *)
(*   svgFile   content of the file at svg_path                             *)
(*   outFile   content of the file at out_path, None while it is absent    *)
(*   tool      what pdftotext does on pdf_path: how it ends and its stdout *)
(*   pc        position in main                                            *)
(*   svg, svg_w, svg_h, root, page, sx, sy, idx, words   locals of main    *)
(*   spawned   number of subprocesses started                              *)
(*   exitCode  Running until the process ends; stdout, stderr: lines       *)

(* no exit status yet *)
Running == 0 - 1

VARIABLES argc, svgFile, outFile, tool, pc, svg, svg_w, svg_h, spawned,
          root, page, sx, sy, idx, words, exitCode, stdout, stderr

vars == << argc, svgFile, outFile, tool, pc, svg, svg_w, svg_h, spawned,
           root, page, sx, sy, idx, words, exitCode, stdout, stderr >>

files  == << svgFile, outFile >>
locals == << svg, svg_w, svg_h, root, page, sx, sy, idx, words >>

(* element tag as ElementTree reports it under a default namespace *)
QName(ns, tag) == IF ns = "" THEN tag ELSE "{" \o ns \o "}" \o tag

(* re.sub(r'\s+xmlns="[^"]*"', "", stdout, count=1) *)
StripNamespace(out) == [out EXCEPT !.ns = ""]

(* find that takes the last page element *)
FindPage_Last(tree) ==
    IF \E i \in 1..Len(tree.elems) : QName(tree.ns, tree.elems[i].tag) = "page"
    THEN CHOOSE i \in 1..Len(tree.elems) :
            /\ QName(tree.ns, tree.elems[i].tag) = "page"
            /\ \A j \in (i + 1)..Len(tree.elems) : QName(tree.ns, tree.elems[j].tag) # "page"
    ELSE 0

(* find that takes the first element whatever its tag *)
FindPage_AnyTag(tree) == IF Len(tree.elems) > 0 THEN 1 ELSE 0

(* root.find(".//page"): index of the first element below the root whose  *)
(* tag is page, 0 when there is none                                       *)
IsPage(tree, i) == QName(tree.ns, tree.elems[i].tag) = "page"

FindPage(tree) ==
    IF \E i \in 1..Len(tree.elems) : IsPage(tree, i)
    THEN CHOOSE i \in 1..Len(tree.elems) :
            IsPage(tree, i) /\ \A j \in 1..(i - 1) : ~IsPage(tree, j)
    ELSE 0

(* float(attr): "ok", or the exception raised *)
FloatError(attr) ==
    IF attr = None THEN "TypeError"
    ELSE IF ~IsDecimal(attr) THEN "ValueError"
    ELSE "ok"

FirstError(errs) ==
    IF \A i \in 1..Len(errs) : errs[i] = "ok" THEN "ok"
    ELSE errs[CHOOSE i \in 1..Len(errs) :
                 errs[i] # "ok" /\ \A j \in 1..(i - 1) : errs[j] = "ok"]

(* a reader that falls back to a unit viewport when there is no viewBox *)
ViewBoxResult_Default(s) ==
    LET m == ViewBoxSearch(s)
    IN IF m = 0 THEN [err |-> "ok", w |-> FloatOfRatio(1, 1), h |-> FloatOfRatio(1, 1)]
       ELSE LET parts == split(ViewBoxGroup(s, m))
                err   == IF Len(parts) < 3 THEN "IndexError"
                         ELSE IF ~IsDecimal(parts[3]) THEN "ValueError"
                         ELSE IF Len(parts) < 4 THEN "IndexError"
                         ELSE IF ~IsDecimal(parts[4]) THEN "ValueError"
                         ELSE "ok"
            IN IF err # "ok" THEN [err |-> err]
               ELSE [err |-> "ok", w |-> float(parts[3]), h |-> float(parts[4])]

(* lines 31-36: the viewport's width and height, or the failure *)
ViewBoxResult(s) ==
    LET m == ViewBoxSearch(s)
    IN IF m = 0 THEN [err |-> "ERROR: No viewBox in SVG"]
       ELSE LET parts == split(ViewBoxGroup(s, m))
                err   == IF Len(parts) < 3 THEN "IndexError"
                         ELSE IF ~IsDecimal(parts[3]) THEN "ValueError"
                         ELSE IF Len(parts) < 4 THEN "IndexError"
                         ELSE IF ~IsDecimal(parts[4]) THEN "ValueError"
                         ELSE "ok"
            IN IF err # "ok" THEN [err |-> err]
               ELSE [err |-> "ok", w |-> float(parts[3]), h |-> float(parts[4])]

(* subprocess.run without check=True *)
ToolResult_NoCheck(t) ==
    IF t.status = "notfound" THEN [err |-> "FileNotFoundError", started |-> 0]
    ELSE [err |-> "ok", started |-> 1]

(* lines 39-42: subprocess.run(..., check=True) *)
ToolResult(t) ==
    IF t.status = "notfound" THEN [err |-> "FileNotFoundError", started |-> 0]
    ELSE IF t.status = "nonzero" THEN [err |-> "CalledProcessError", started |-> 1]
    ELSE [err |-> "ok", started |-> 1]

(* scale factors with a guarded division: zero extent gives zero scale *)
PageScale_ZeroOk(p, w, h) ==
    LET err == FirstError(<< FloatError(p.width), FloatError(p.height) >>)
    IN IF err # "ok" THEN [err |-> err]
       ELSE [err |-> "ok",
             sx |-> IF float(p.width) = FZero THEN FZero ELSE FDiv(w, float(p.width)),
             sy |-> IF float(p.height) = FZero THEN FZero ELSE FDiv(h, float(p.height))]

(* lines 50-53: the scale factors, or the failure *)
PageScale(p, w, h) ==
    LET err == FirstError(<< FloatError(p.width), FloatError(p.height) >>)
    IN IF err # "ok" THEN [err |-> err]
       ELSE IF float(p.width) = FZero \/ float(p.height) = FZero
       THEN [err |-> "ZeroDivisionError"]
       ELSE [err |-> "ok", sx |-> FDiv(w, float(p.width)), sy |-> FDiv(h, float(p.height))]

(* (w.text or "").strip() *)
WordText(w) == IF w.text = None THEN << >> ELSE strip(w.text)

(* WordBox with the extent scaled after the subtraction *)
WordBox_ScaleExtent(w, text, scx, scy) ==
    [t |-> text,
     x |-> round1(FMul(float(w.xMin), scx)),
     y |-> round1(FMul(float(w.yMin), scy)),
     w |-> round1(FMul(FSub(float(w.xMax), float(w.xMin)), scx)),
     h |-> round1(FMul(FSub(float(w.yMax), float(w.yMin)), scy))]

(* lines 60-70: the WordBox of a word, numbers in tenths *)
WordBox(w, text, scx, scy) ==
    LET x_min == FMul(float(w.xMin), scx)
        y_min == FMul(float(w.yMin), scy)
        x_max == FMul(float(w.xMax), scx)
        y_max == FMul(float(w.yMax), scy)
    IN [t |-> text,
        x |-> round1(x_min),
        y |-> round1(y_min),
        w |-> round1(FSub(x_max, x_min)),
        h |-> round1(FSub(y_max, y_min))]

(* splice without the line break after the group *)
Splice_NoNewline(s, ws) == Replace(s, CloseTag, InjectElement(ws) \o CloseTag)

(* splice that appends the group when there is no closing tag *)
Splice_AppendIfMissing(s, ws) ==
    IF Find(s, CloseTag) = 0 THEN s \o InjectElement(ws) \o << "\n" >>
    ELSE Replace(s, CloseTag, InjectElement(ws) \o << "\n" >> \o CloseTag)

(* lines 74-78: the document with the hidden group spliced in *)
Splice(s, ws) == Replace(s, CloseTag, InjectElement(ws) \o << "\n" >> \o CloseTag)

(* process ends: sys.exit(code) or an uncaught exception (status 1) *)
Exit(code, out, err) ==
    /\ pc' = "exit"
    /\ exitCode' = code
    /\ stdout' = stdout \o out
    /\ stderr' = stderr \o err

Goto(next) ==
    /\ pc' = next
    /\ UNCHANGED << exitCode, stdout, stderr >>

(* lines 21-25 *)
CheckArgs ==
    /\ pc = "args"
    /\ IF argc # 4
       THEN Exit(1, << "Usage" >>, << >>)
       ELSE Goto("read")
    /\ UNCHANGED << argc, files, tool, locals, spawned >>

(* lines 28-29 *)
ReadSvg ==
    /\ pc = "read"
    /\ svg' = svgFile
    /\ Goto("viewbox")
    /\ UNCHANGED << argc, files, tool, svg_w, svg_h, root, page, sx, sy, idx, words,
                    spawned >>

(* lines 31-36 *)
ReadViewBox ==
    /\ pc = "viewbox"
    /\ LET r == ViewBoxResult(svg)
       IN IF r.err # "ok"
          THEN /\ Exit(1, << >>, << r.err >>)
               /\ UNCHANGED << svg_w, svg_h >>
          ELSE /\ svg_w' = r.w
               /\ svg_h' = r.h
               /\ Goto("run")
    /\ UNCHANGED << argc, files, tool, svg, root, page, sx, sy, idx, words, spawned >>

(* lines 39-42 *)
RunPdftotext ==
    /\ pc = "run"
    /\ LET r == ToolResult(tool)
       IN /\ spawned' = spawned + r.started
          /\ IF r.err # "ok"
             THEN Exit(1, << >>, << r.err >>)
             ELSE Goto("parse")
    /\ UNCHANGED << argc, files, tool, locals >>

(* lines 43-48 *)
ParseOutput ==
    /\ pc = "parse"
    /\ LET xml_text == StripNamespace(tool.out)
       IN IF ~xml_text.wellformed
          THEN /\ Exit(1, << >>, << "ParseError" >>)
               /\ UNCHANGED << root, page >>
          ELSE LET tree == [ns |-> xml_text.ns, elems |-> xml_text.elems]
               IN /\ root' = tree
                  /\ IF FindPage(tree) = 0
                     THEN /\ Exit(1, << >>, << "ERROR: No <page> in pdftotext output" >>)
                          /\ UNCHANGED page
                     ELSE /\ page' = tree.elems[FindPage(tree)]
                          /\ Goto("scale")
    /\ UNCHANGED << argc, files, tool, svg, svg_w, svg_h, sx, sy, idx, words, spawned >>

(* lines 50-55 *)
Scale ==
    /\ pc = "scale"
    /\ LET r == PageScale(page, svg_w, svg_h)
       IN IF r.err # "ok"
          THEN /\ Exit(1, << >>, << r.err >>)
               /\ UNCHANGED << sx, sy, idx, words >>
          ELSE /\ sx' = r.sx
               /\ sy' = r.sy
               /\ words' = << >>
               /\ idx' = 1
               /\ Goto("words")
    /\ UNCHANGED << argc, files, tool, svg, svg_w, svg_h, root, page, spawned >>

(* lines 56-70: one iteration of the loop over page.iter("word") *)
MapWord ==
    /\ pc = "words"
    /\ idx <= Len(page.words)
    /\ LET w    == page.words[idx]
           text == WordText(w)
           err  == FirstError(<< FloatError(w.xMin), FloatError(w.yMin),
                                 FloatError(w.xMax), FloatError(w.yMax) >>)
       IN IF text = << >>
          THEN /\ idx' = idx + 1
               /\ Goto("words")
               /\ UNCHANGED words
          ELSE IF err # "ok"
          THEN /\ Exit(1, << >>, << err >>)
               /\ UNCHANGED << idx, words >>
          ELSE /\ words' = Append(words, WordBox(w, text, sx, sy))
               /\ idx' = idx + 1
               /\ Goto("words")
    /\ UNCHANGED << argc, files, tool, svg, svg_w, svg_h, root, page, sx, sy, spawned >>

(* lines 74-78 *)
Inject ==
    /\ pc = "words"
    /\ idx > Len(page.words)
    /\ svg' = Splice(svg, words)
    /\ Goto("write")
    /\ UNCHANGED << argc, files, tool, svg_w, svg_h, root, page, sx, sy, idx, words,
                    spawned >>

(* lines 80-81 *)
WriteOutput ==
    /\ pc = "write"
    /\ outFile' = svg
    /\ Goto("print")
    /\ UNCHANGED << argc, svgFile, tool, locals, spawned >>

(* line 83, then the normal end of the process *)
PrintSummary ==
    /\ pc = "print"
    /\ Exit(0, << "summary" >>, << >>)
    /\ UNCHANGED << argc, files, tool, locals, spawned >>

----------------------------------------------------------------------------
(* The runs examined: input files, prior output file, pdftotext behaviour. *)

MaxFrag  == 3    \* fragments after the opening tag of a generated document
MaxWords == 2    \* word nodes under the first page
MaxElems == 1    \* elements after the first page
MaxText  == 2    \* characters of a generated word text

RECURSIVE Concat(_)
Concat(ss) == IF ss = << >> THEN << >> ELSE Head(ss) \o Concat(Tail(ss))

SeqsUpTo(S, n) == UNION {[1..k -> S] : k \in 0..n}

Num(n) == NatToDigits(n)
Dec(n, d) == NatToDigits(n) \o << "." >> \o NatToDigits(d)
Sp == << " " >>

ViewBox(a, b, w, h) == a \o Sp \o b \o Sp \o w \o Sp \o h

OpenTag(vb) == << "<", "s", "v", "g", " " >> \o ViewBoxPrefix \o vb \o << "\"", ">" >>

Path == << "<path/>" >>

StdViewBox == ViewBox(Num(0), Num(0), Num(600), Num(800))
StdSvg == OpenTag(StdViewBox) \o Path \o CloseTag \o << "\n" >>

Word(text, x0, y0, x1, y1) ==
    [text |-> text, xMin |-> x0, yMin |-> y0, xMax |-> x1, yMax |-> y1]

Elem(tag, w, h, ws) == [tag |-> tag, width |-> w, height |-> h, words |-> ws]

Hello == Word(<< "H", "e", "l", "l", "o" >>, Num(10), Num(20), Num(60), Num(40))
StdPage == Elem("page", Num(300), Num(400), << Hello >>)

XHtml == "http://www.w3.org/1999/xhtml"

Output(ns, elems) == [wellformed |-> TRUE, ns |-> ns, elems |-> elems]
Garbage == [wellformed |-> FALSE, ns |-> "", elems |-> << >>]
Ok(out) == [status |-> "ok", out |-> out]
StdTool == Ok(Output(XHtml, << StdPage >>))

Run(n, f, t) == [argc |-> n, svgFile |-> f, tool |-> t]

(* documents: the opening tag followed by fragments, closing tags included *)
FragPool == {CloseTag, Path, << "\n" >>}
DocRuns ==
    {Run(4, OpenTag(StdViewBox) \o Concat(fs), StdTool) : fs \in SeqsUpTo(FragPool, MaxFrag)}

(* extraction outputs: words under the first page, elements after it *)
Blank == Word(<< " ", "\t" >>, << "?" >>, None, << >>, << "-" >>)
WordPool ==
    {Hello,
     Word(<< " ", "a", " ", "b", "\n" >>, Num(0), Num(0), Dec(7, 5), Num(3)),
     Blank,
     Word(None, None, None, None, None)}
ElemPool ==
    {Elem("head", None, None, << >>),
     Elem("page", Num(150), Num(200),
          << Word(<< "Z", "e", "d" >>, Num(1), Num(2), Num(3), Num(4)) >>)}
PageOf(ws) == Elem("page", Num(300), Num(400), ws)
LayoutRuns ==
    {Run(4, StdSvg, Ok(Output(XHtml, << PageOf(ws) >>))) : ws \in SeqsUpTo(WordPool, MaxWords)}
      \cup {Run(4, StdSvg, Ok(Output(XHtml, << PageOf(ws) >> \o es))) :
              ws \in {<< >>, << Hello >>, << Blank, Hello >>},
              es \in SeqsUpTo(ElemPool, MaxElems)}
      \cup {Run(4, StdSvg, Ok(Output(ns, pre \o << StdPage >>))) :
              ns \in {"", XHtml}, pre \in {<< >>, << Elem("head", None, None, << >>) >>}}

(* word texts *)
TextAlphabet == {"a", "'", "\"", "<", "&", "\\"}
ExtraTexts ==
    {<< "&", "l", "t", ";" >>, << "&", "#", "x", "2", "7", ";" >>,
     << "a", "\n", "é" >>, << "<", "/", "s", "v", "g", ">" >>,
     << "'", ">", "<", "/", "g", ">" >>, << "a", " ", ">", ";" >>}
TextRuns ==
    {Run(4, StdSvg, Ok(Output(XHtml,
        << Elem("page", Num(300), Num(400),
                << Word(t, Num(10), Num(20), Num(60), Num(40)) >>) >>))) :
        t \in SeqsUpTo(TextAlphabet, MaxText) \cup ExtraTexts}

(* numbers: viewports, page extents and boxes *)
NumViewBoxes ==
    {StdViewBox,
     ViewBox(Num(0), Num(0), Num(595), Num(842)),
     ViewBox(Num(5), Num(7), Num(595), Num(842)),
     ViewBox(<< "a" >>, << "-" >>, Dec(595, 5), Num(842)) \o << " ", "9" >>}
NumPages == {<< Num(300), Num(400) >>, << Num(612), Num(792) >>, << Dec(612, 0), Dec(791, 25) >>}
NumBoxes ==
    {<< Num(10), Num(20), Num(60), Num(40) >>,
     << Num(11), Num(20), Num(20), Num(31) >>,
     << Num(6), Dec(0, 5), Num(33), Dec(12, 75) >>,
     << Num(3), Num(700), Num(66), Num(900) >>}
NumRuns ==
    {Run(4, OpenTag(vb) \o CloseTag,
         Ok(Output(XHtml, << Elem("page", p[1], p[2],
                                  << Word(<< "w" >>, b[1], b[2], b[3], b[4]) >>) >>))) :
        vb \in NumViewBoxes, p \in NumPages, b \in NumBoxes}

(* failures *)
BadSvgs ==
    {<< "<", "s", "v", "g", ">" >> \o CloseTag,
     << "<", "s", "v", "g", " ", "v", "i", "e", "w", "B", "o", "x", "=", "'", "0", "'", ">" >>
        \o CloseTag,
     OpenTag(<< >>) \o CloseTag,
     OpenTag(Num(0) \o Sp \o Num(0) \o Sp \o Num(600)) \o CloseTag,
     OpenTag(Num(0) \o Sp \o Num(0)) \o CloseTag,
     OpenTag(ViewBox(Num(0), Num(0), << "a" >>, Num(800))) \o CloseTag,
     OpenTag(ViewBox(Num(0), Num(0), Num(600), << "1", ".", "2", ".", "3" >>)) \o CloseTag,
     OpenTag(Num(0) \o Sp \o Num(0) \o Sp \o << "w" >>) \o CloseTag}
BadTools ==
    {[status |-> "notfound", out |-> Garbage],
     [status |-> "nonzero", out |-> Garbage],
     Ok(Garbage),
     Ok(Output(XHtml, << >>)),
     Ok(Output(XHtml, << Elem("head", None, None, << Hello >>) >>)),
     Ok(Output(XHtml, << Elem("page", None, Num(400), << Hello >>) >>)),
     Ok(Output(XHtml, << Elem("page", Num(300), << "x" >>, << Hello >>) >>)),
     Ok(Output(XHtml, << Elem("page", Num(0), Num(400), << Hello >>) >>)),
     Ok(Output(XHtml, << Elem("page", Num(300), Dec(0, 0), << Hello >>) >>)),
     Ok(Output(XHtml, << Elem("page", Num(300), Num(400),
                              << Hello, Word(<< "x" >>, Num(1), << "y" >>, Num(2), Num(3)) >>) >>)),
     Ok(Output(XHtml, << Elem("page", Num(300), Num(400),
                              << Hello, Word(<< "x" >>, Num(1), Num(1), Num(2), None) >>) >>))}
FailRuns ==
    {Run(n, StdSvg, StdTool) : n \in {1, 3, 5}}
      \cup {Run(4, f, StdTool) : f \in BadSvgs}
      \cup {Run(4, StdSvg, t) : t \in BadTools}

Runs == DocRuns \cup LayoutRuns \cup TextRuns \cup NumRuns \cup FailRuns

(* the file at out_path before the run: absent, or left by an earlier run *)
OldOutput == << "o", "l", "d" >>
PriorOutputs(r) == IF r \in TextRuns \cup NumRuns THEN {None} ELSE {None, OldOutput}

Init ==
    /\ \E r \in Runs :
          /\ argc = r.argc
          /\ svgFile = r.svgFile
          /\ tool = r.tool
          /\ outFile \in PriorOutputs(r)
    /\ pc = "args"
    /\ svg = None
    /\ svg_w = None
    /\ svg_h = None
    /\ spawned = 0
    /\ root = None
    /\ page = None
    /\ sx = None
    /\ sy = None
    /\ idx = 0
    /\ words = << >>
    /\ exitCode = Running
    /\ stdout = << >>
    /\ stderr = << >>

Next ==
    \/ CheckArgs
    \/ ReadSvg
    \/ ReadViewBox
    \/ RunPdftotext
    \/ ParseOutput
    \/ Scale
    \/ MapWord
    \/ Inject
    \/ WriteOutput
    \/ PrintSummary

Spec == Init /\ [][Next]_vars

----------------------------------------------------------------------------
(* What a reader of the attribute does: html.unescape, then json.loads.    *)

Entities ==
    << << << "&", "a", "m", "p", ";" >>, "&" >>,
       << << "&", "l", "t", ";" >>, "<" >>,
       << << "&", "g", "t", ";" >>, ">" >>,
       << << "&", "q", "u", "o", "t", ";" >>, "\"" >>,
       << << "&", "#", "x", "2", "7", ";" >>, "'" >> >>

EntityAt(s, i) ==
    IF \E k \in 1..Len(Entities) : Occurs(s, Entities[k][1], i)
    THEN CHOOSE k \in 1..Len(Entities) : Occurs(s, Entities[k][1], i)
    ELSE 0

RECURSIVE HtmlUnescape(_)
HtmlUnescape(s) ==
    LET i == Find(s, << "&" >>)
    IN IF i = 0 THEN s
       ELSE LET k == EntityAt(s, i)
            IN IF k = 0
               THEN SubSeq(s, 1, i) \o HtmlUnescape(SubSeq(s, i + 1, Len(s)))
               ELSE SubSeq(s, 1, i - 1) \o << Entities[k][2] >>
                      \o HtmlUnescape(SubSeq(s, i + Len(Entities[k][1]), Len(s)))

(* the text of a JSON string literal's body *)
RECURSIVE JsonUnescape(_)
JsonUnescape(b) ==
    IF b = << >> THEN << >>
    ELSE IF b[1] # "\\" THEN << b[1] >> \o JsonUnescape(Tail(b))
    ELSE IF b[2] = "n" THEN << "\n" >> \o JsonUnescape(SubSeq(b, 3, Len(b)))
    ELSE IF b[2] = "t" THEN << "\t" >> \o JsonUnescape(SubSeq(b, 3, Len(b)))
    ELSE IF b[2] = "u" /\ SubSeq(b, 3, 6) = << "0", "0", "e", "9" >>
         THEN << "é" >> \o JsonUnescape(SubSeq(b, 7, Len(b)))
    ELSE << b[2] >> \o JsonUnescape(SubSeq(b, 3, Len(b)))

(* s[j] is a quote that no backslash escapes *)
ClosingQuote(s, i, j) ==
    /\ s[j] = "\""
    /\ LET k == IF \E n \in i..(j - 1) : s[n] # "\\"
                THEN CHOOSE n \in i..(j - 1) :
                        s[n] # "\\" /\ \A n2 \in (n + 1)..(j - 1) : s[n2] = "\\"
                ELSE i - 1
       IN (j - 1 - k) % 2 = 0

(* a string literal opening at s[i] *)
ParseString(s, i) ==
    LET j == CHOOSE n \in (i + 1)..Len(s) :
                ClosingQuote(s, i + 1, n)
                  /\ \A n2 \in (i + 1)..(n - 1) : ~ClosingQuote(s, i + 1, n2)
    IN [v |-> [kind |-> "str", str |-> JsonUnescape(SubSeq(s, i + 1, j - 1)), num |-> 0],
        next |-> j + 1]

(* a number literal with one fractional digit, as tenths *)
ParseNumber(s, i) ==
    LET j == IF \E n \in i..Len(s) : ~(IsDigit(s[n]) \/ s[n] = ".")
             THEN CHOOSE n \in i..Len(s) :
                     /\ ~(IsDigit(s[n]) \/ s[n] = ".")
                     /\ \A n2 \in i..(n - 1) : IsDigit(s[n2]) \/ s[n2] = "."
             ELSE Len(s) + 1
        tok == SubSeq(s, i, j - 1)
    IN [v |-> [kind |-> "num", str |-> << >>,
               num |-> DigitsToNat(SubSeq(tok, 1, Len(tok) - 2)) * 10 + DigitVal(tok[Len(tok)])],
        next |-> j]

ParseValue(s, i) == IF s[i] = "\"" THEN ParseString(s, i) ELSE ParseNumber(s, i)

(* the members of an object, from the first key at s[i], up to its brace *)
RECURSIVE ParseMembers(_, _)
ParseMembers(s, i) ==
    LET key == ParseString(s, i)
        val == ParseValue(s, key.next + 1)
        one == << << key.v.str, val.v >> >>
    IN IF s[val.next] = ","
       THEN LET rest == ParseMembers(s, val.next + 1)
            IN [v |-> one \o rest.v, next |-> rest.next]
       ELSE [v |-> one, next |-> val.next + 1]

(* the objects of an array, from the first brace at s[i] *)
RECURSIVE ParseItems(_, _)
ParseItems(s, i) ==
    LET obj == ParseMembers(s, i + 1)
    IN IF s[obj.next] = ","
       THEN << obj.v >> \o ParseItems(s, obj.next + 1)
       ELSE << obj.v >>

json_loads(s) == IF s = << "[", "]" >> THEN << >> ELSE ParseItems(s, 2)

JStr(t) == [kind |-> "str", str |-> t, num |-> 0]
JNum(k) == [kind |-> "num", str |-> << >>, num |-> k]

(* the array of WordBox objects as json.loads returns it *)
AsJson(ws) ==
    [i \in 1..Len(ws) |->
        << << << "t" >>, JStr(ws[i].t) >>, << << "x" >>, JNum(ws[i].x) >>,
           << << "y" >>, JNum(ws[i].y) >>, << << "w" >>, JNum(ws[i].w) >>,
           << << "h" >>, JNum(ws[i].h) >> >>]

----------------------------------------------------------------------------
(* Properties.                                                             *)

Succeeded == pc = "exit" /\ exitCode = 0

ClosePositions(s) == {i \in 1..Len(s) : Occurs(s, CloseTag, i)}

Texts(ws) == [i \in 1..Len(ws) |-> ws[i].t]

C2_AsClaimed ==
    (Succeeded /\ ClosePositions(svgFile) # {}) =>
        LET i == Find(svgFile, CloseTag)
        IN \E sep \in {<< >>, << "\n" >>} :
              outFile = SubSeq(svgFile, 1, i - 1) \o InjectElement(words) \o sep
                          \o SubSeq(svgFile, i, Len(svgFile))

(* the viewport tokens and page extent a word is mapped with *)
ViewBoxTokens == split(ViewBoxGroup(svgFile, ViewBoxSearch(svgFile)))

Emits == pc = "words" /\ Len(words') = Len(words) + 1

(* C3 as stated: each emitted box is round(xMin*W/sourceW, 1),             *)
(* round(yMin*H/sourceH, 1), round((xMax-xMin)*W/sourceW, 1),              *)
(* round((yMax-yMin)*H/sourceH, 1).                                        *)
C3_AsClaimed ==
    [][Emits =>
        LET w   == page.words[idx]
            W   == float(ViewBoxTokens[3])
            H   == float(ViewBoxTokens[4])
            sw  == float(page.width)
            sh  == float(page.height)
            box == words'[Len(words')]
        IN /\ box.x = round1(FDiv(FMul(float(w.xMin), W), sw))
           /\ box.y = round1(FDiv(FMul(float(w.yMin), H), sh))
           /\ box.w = round1(FDiv(FMul(FSub(float(w.xMax), float(w.xMin)), W), sw))
           /\ box.h = round1(FDiv(FMul(FSub(float(w.yMax), float(w.yMin)), H), sh))]_vars

IsNumber(attr, n) == attr = NatToDigits(n)

(* C3 amended: with sx = W/sourceW and sy = H/sourceH computed first, each *)
(* emitted box is x = round(xMin*sx, 1), y = round(yMin*sy, 1),            *)
(* w = round(xMax*sx - xMin*sx, 1), h = round(yMax*sy - yMin*sy, 1), every *)
(* operation in double precision; the first two viewport tokens play no    *)
(* part; viewport 600x800, page 300x400, box (10,20,60,40) gives           *)
(* x=20.0, y=40.0, w=100.0, h=40.0.                                        *)
C3_Mapping ==
    [][Emits =>
        LET w   == page.words[idx]
            kx  == FDiv(float(ViewBoxTokens[3]), float(page.width))
            ky  == FDiv(float(ViewBoxTokens[4]), float(page.height))
            box == words'[Len(words')]
        IN /\ box.x = round1(FMul(float(w.xMin), kx))
           /\ box.y = round1(FMul(float(w.yMin), ky))
           /\ box.w = round1(FSub(FMul(float(w.xMax), kx), FMul(float(w.xMin), kx)))
           /\ box.h = round1(FSub(FMul(float(w.yMax), ky), FMul(float(w.yMin), ky)))
           /\ ( /\ IsNumber(ViewBoxTokens[3], 600) /\ IsNumber(ViewBoxTokens[4], 800)
                /\ IsNumber(page.width, 300) /\ IsNumber(page.height, 400)
                /\ IsNumber(w.xMin, 10) /\ IsNumber(w.yMin, 20)
                /\ IsNumber(w.xMax, 60) /\ IsNumber(w.yMax, 40)
                => box.x = 200 /\ box.y = 400 /\ box.w = 1000 /\ box.h = 400 )]_vars

C3_Witness ==
    /\ words # << >>
    /\ IsNumber(ViewBoxTokens[1], 5)
    /\ IsNumber(ViewBoxTokens[3], 595)
    /\ IsNumber(page.width, 612)
    /\ words[1].x = 107
    /\ words[1].w = 87

(* the trimmed non-blank texts of word nodes, in order *)
RECURSIVE NonBlankTexts(_)
NonBlankTexts(ws) ==
    IF ws = << >> THEN << >>
    ELSE LET t == IF Head(ws).text = None THEN << >> ELSE strip(Head(ws).text)
         IN (IF t = << >> THEN << >> ELSE << t >>) \o NonBlankTexts(Tail(ws))

RECURSIVE AllWords(_)
AllWords(es) == IF es = << >> THEN << >> ELSE Head(es).words \o AllWords(Tail(es))

FirstPageElem ==
    LET es == tool.out.elems
        i  == CHOOSE n \in 1..Len(es) :
                 es[n].tag = "page" /\ \A m \in 1..(n - 1) : es[m].tag # "page"
    IN es[i]

FirstPageWords == FirstPageElem.words

Mapped == pc \in {"write", "print"} \/ Succeeded

(* C4 as stated: the output array is the non-blank word nodes of the whole *)
(* extraction output, whatever the number of page nodes, in order.         *)
C4_AsClaimed == Mapped => Texts(words) = NonBlankTexts(AllWords(tool.out.elems))

(* C4 amended: the output array is exactly the word nodes under the first  *)
(* page node whose text is non-empty after trimming, in document order,    *)
(* each with its trimmed text; its length is the count of those nodes.     *)
C4_FirstPageWords == Mapped => Texts(words) = NonBlankTexts(FirstPageWords)

C4_Witness ==
    /\ Succeeded
    /\ Len(tool.out.elems) > 1
    /\ Len(FirstPageWords) = 2
    /\ Len(words) = 1

(* the document declares viewBox="..." with a non-empty value *)
HasViewBoxAttr(s) ==
    \E i \in 1..Len(s) : \E j \in (i + 10)..Len(s) :
        /\ Occurs(s, ViewBoxPrefix, i)
        /\ s[j] = "\""
        /\ \A k \in (i + 9)..(j - 1) : s[k] # "\""

(* C5: without a viewBox attribute the process prints the error naming the *)
(* missing viewBox and exits with code 1, never starts the subprocess and  *)
(* never writes the output file.                                           *)
C5_MissingViewBox ==
    /\ [](~HasViewBoxAttr(svgFile) =>
            /\ spawned = 0
            /\ pc \in {"args", "read", "viewbox", "exit"}
            /\ (pc = "exit" /\ argc = 4 =>
                  exitCode = 1 /\ stderr = << "ERROR: No viewBox in SVG" >>))
    /\ [][~HasViewBoxAttr(svgFile) => outFile' = outFile]_vars

C5_Witness ==
    /\ ~HasViewBoxAttr(svgFile)
    /\ Find(svgFile, << "v", "i", "e", "w", "B", "o", "x" >>) # 0
    /\ pc = "exit"
    /\ exitCode = 1
    /\ outFile = OldOutput

(* C6: when pdftotext cannot be started or exits non-zero the run ends     *)
(* with that failure and a non-zero status, starts no second subprocess,   *)
(* runs no later step and never writes the output file.                    *)
C6_ToolFailure ==
    /\ [](tool.status # "ok" =>
            /\ spawned <= 1
            /\ pc \notin {"parse", "scale", "words", "write", "print"}
            /\ (pc = "exit" /\ argc = 4 /\ ViewBoxResult(svgFile).err = "ok" =>
                  /\ exitCode = 1
                  /\ stderr = << IF tool.status = "notfound"
                                 THEN "FileNotFoundError" ELSE "CalledProcessError" >>))
    /\ [][tool.status # "ok" => outFile' = outFile]_vars

C6_Witness ==
    /\ tool.status = "nonzero"
    /\ pc = "exit"
    /\ spawned = 1
    /\ exitCode = 1
    /\ outFile = OldOutput

NoPageElement ==
    /\ tool.status = "ok"
    /\ tool.out.wellformed
    /\ \A i \in 1..Len(tool.out.elems) : tool.out.elems[i].tag # "page"

(* C7: when the extraction output parses but has no page element the      *)
(* process prints the diagnostic to the error stream, exits with code 1    *)
(* and never writes the output file.                                       *)
C7_MissingPage ==
    /\ [](NoPageElement =>
            /\ pc \notin {"scale", "words", "write", "print"}
            /\ (pc = "exit" /\ spawned = 1 =>
                  /\ exitCode = 1
                  /\ stderr = << "ERROR: No <page> in pdftotext output" >>))
    /\ [][NoPageElement => outFile' = outFile]_vars

C7_Witness ==
    /\ NoPageElement
    /\ Len(tool.out.elems) > 0
    /\ pc = "exit"
    /\ exitCode = 1
    /\ spawned = 1
    /\ outFile = OldOutput

(* the data-words value of the group opening at position p of s *)
AttrStart(p) == p + Len(InjectOpen)
AttrEnd(s, p) ==
    CHOOSE q \in AttrStart(p)..Len(s) :
        s[q] = "'" /\ \A k \in AttrStart(p)..(q - 1) : s[k] # "'"
AttrValue(s, p) == SubSeq(s, AttrStart(p), AttrEnd(s, p) - 1)

(* C8: the value inside data-words='...' holds no raw quote, double quote, *)
(* < or >, and no & other than the start of an entity, so the attribute    *)
(* ends at its own closing quote; unescaped and parsed as JSON it is the   *)
(* array of WordBox objects, each with the keys t, x, y, w, h.             *)
C8_AttributeSafe ==
    pc \in {"write", "print"} =>
        \A p \in 1..Len(svg) :
            Occurs(svg, InjectOpen, p) =>
                LET v == AttrValue(svg, p)
                IN /\ \A k \in 1..Len(v) :
                         /\ v[k] \notin {"'", "\"", "<", ">"}
                         /\ v[k] = "&" => EntityAt(v, k) # 0
                   /\ Occurs(svg, InjectClose \o << "\n" >> \o CloseTag, AttrEnd(svg, p))
                   /\ json_loads(HtmlUnescape(v)) = AsJson(words)
                   /\ \A i \in 1..Len(words) :
                         [k \in 1..5 |-> json_loads(HtmlUnescape(v))[i][k][1]]
                            = << << "t" >>, << "x" >>, << "y" >>, << "w" >>, << "h" >> >>

C8_Witness ==
    /\ pc = "print"
    /\ Find(svg, InjectOpen) # 0
    /\ words # << >>
    /\ words[1].t = << "'", "&" >>

(* every step before the write has succeeded on these inputs *)
WordValid(w) ==
    (w.text # None /\ strip(w.text) # << >>) =>
        \A a \in {w.xMin, w.yMin, w.xMax, w.yMax} : a # None /\ IsDecimal(a)

InputsValid ==
    /\ argc = 4
    /\ HasViewBoxAttr(svgFile)
    /\ Len(ViewBoxTokens) >= 4
    /\ IsDecimal(ViewBoxTokens[3])
    /\ IsDecimal(ViewBoxTokens[4])
    /\ tool.status = "ok"
    /\ tool.out.wellformed
    /\ ~NoPageElement
    /\ \A a \in {FirstPageElem.width, FirstPageElem.height} :
          a # None /\ IsDecimal(a) /\ \E i \in 1..Len(a) : IsDigit(a[i]) /\ a[i] # "0"
    /\ \A i \in 1..Len(FirstPageWords) : WordValid(FirstPageWords[i])

(* C9: the output file is written only by the write step, which runs only  *)
(* after the viewport was parsed, the subprocess succeeded, the page was   *)
(* found and every word mapped; a run that fails earlier (argument count,  *)
(* short or non-numeric viewBox, non-numeric or missing page or word       *)
(* attribute, zero page extent, unparsable output) ends with status 1 and  *)
(* leaves the output file as it was.                                       *)
C9_NoPartialOutput ==
    /\ [](pc \in {"write", "print"} \/ exitCode = 0 =>
            /\ InputsValid
            /\ spawned = 1
            /\ idx = Len(FirstPageWords) + 1
            /\ stderr = << >>)
    /\ [](pc = "exit" => exitCode \in {0, 1})
    /\ [](exitCode = 1 => outFile \in {None, OldOutput})
    /\ [][outFile' # outFile => pc = "write" /\ pc' = "print"]_vars
    /\ [][pc = "print" => pc' = "exit" /\ exitCode' = 0]_vars

C9_Witness ==
    /\ pc = "exit"
    /\ exitCode = 1
    /\ stderr = << "ZeroDivisionError" >>
    /\ spawned = 1
    /\ outFile = OldOutput

====
